---------------------------- MODULE Spec2Model ----------------------------
(***************************************************************************)
(* A model of src/src/misc.go (package drive): the memoized byte-size      *)
(* formatter, commonPrefix, remotePathSplit, readCommentedFile and         *)
(* serializeAsDesktopEntry.                                                *)
(*                                                                         *)
(* Strings are sequences of one-character strings (Go bytes).  Go indexes  *)
(* from 0, TLA+ sequences from 1: every index below is the Go index + 1.   *)
(***************************************************************************)
EXTENDS Integers, Sequences, FiniteSets, TLC

VARIABLES
    pc,          \* which operation ran last ("idle" before any call)
    values,      \* commonPrefix: the arguments of the last call
    prefix,      \* commonPrefix: the value the last call returned
    b,           \* prettyBytes: the argument of the last call
    description, \* prettyBytes: the value the last call returned
    cache,       \* memoizeBytes: the closure's cache map
    passed,      \* every byte count passed to the formatter so far (history)
    firstRet,    \* what the first call with each byte count returned (history)
    loopExit,    \* i and bf when the last computing call left its loop (history)
    ncalls,      \* number of calls made so far (history, bounded)
    p,           \* remotePathSplit: the argument of the last call
    split,       \* remotePathSplit: the (dir, base) pair the last call returned
    disk,        \* the file system: path -> content, or NoFile
    handles,     \* every os.File handle opened so far, with its state
    trace,       \* the system calls of the last call, in order
    args,        \* the arguments of the last file operation
    ret,         \* what the last file operation returned
    before       \* the cache, or the disk and handles, as the last call found them (history)

vars == <<pc, values, prefix, b, description, cache, passed, firstRet, loopExit,
          ncalls, p, split, disk, handles, trace, args, ret, before>>

prefixVars == <<values, prefix>>
bytesVars == <<b, description, cache, passed, firstRet, loopExit>>
pathVars == <<p, split>>
ioVars == <<disk, handles, trace, args, ret>>

-----------------------------------------------------------------------------
(* Strings *)

\* All strings over alphabet A of length at most n.
StringsUpTo(A, n) == UNION {[1..k -> A] : k \in 0..n}

\* s[from:] of Go, with from a Go (0-based) index.
Suffix(s, from) == SubSeq(s, from + 1, Len(s))

\* s[:to] of Go, with to a Go (0-based) index.
Prefix(s, to) == SubSeq(s, 1, to)

\* strings.HasPrefix(s, pre): len(s) >= len(pre) && s[:len(pre)] == pre
HasPrefix(s, pre) == Len(s) >= Len(pre) /\ Prefix(s, Len(pre)) = pre

-----------------------------------------------------------------------------
(* commonPrefix, misc.go:154-194 *)

\* The zero byte make([]byte, n) fills a new slice with.
NUL == "\\x00"

\* The bytes the argument strings are drawn from.
PrefixBytes == {"a", "b"}

MaxStrLen == 2
MaxValues == 3

PrefixInputs == StringsUpTo(StringsUpTo(PrefixBytes, MaxStrLen), MaxValues)

\* The loop of lines 163-174 from index i on: it returns early on an empty
\* string, and otherwise tracks the first shortest string and its index.
RECURSIVE scanMin(_, _, _, _)
scanMin(vs, i, min, minIndex) ==
    IF i > Len(vs)
    THEN [returned |-> FALSE, min |-> min, minIndex |-> minIndex]
    ELSE IF vs[i] = <<>>
         THEN [returned |-> TRUE, min |-> min, minIndex |-> minIndex]
         ELSE IF Len(vs[i]) < Len(min)
              THEN scanMin(vs, i + 1, vs[i], i)
              ELSE scanMin(vs, i + 1, min, minIndex)

\* The loops of lines 178-192 from byte position i on: the position is copied
\* into prefix unless some other string differs there, which ends the loop.
RECURSIVE fillPrefix(_, _, _, _, _)
fillPrefix(vs, min, minIndex, i, pre) ==
    IF i > Len(min)
    THEN pre
    ELSE IF \E j \in 1..Len(vs) : j # minIndex /\ vs[j][i] # min[i]
         THEN pre
         ELSE fillPrefix(vs, min, minIndex, i + 1, [pre EXCEPT ![i] = min[i]])

\* A variant that skips empty strings instead of returning "" for them.
commonPrefixSkipEmpty(vs) ==
    LET ne == SelectSeq(vs, LAMBDA s : s # <<>>) IN
    IF Len(ne) < 1
    THEN <<>>
    ELSE LET s == scanMin(ne, 2, ne[1], 1) IN
         fillPrefix(ne, s.min, s.minIndex, 1, [k \in 1..Len(s.min) |-> NUL])

commonPrefix(vs) ==
    IF Len(vs) < 1
    THEN <<>>
    ELSE LET s == scanMin(vs, 2, vs[1], 1) IN
         IF s.returned
         THEN <<>>
         ELSE fillPrefix(vs, s.min, s.minIndex, 1,
                         [k \in 1..Len(s.min) |-> NUL])

-----------------------------------------------------------------------------
(* memoizeBytes, misc.go:62-87 *)

(***************************************************************************)
(* An int64 is a record [neg, mag]: its sign and its magnitude as          *)
(* little-endian base-1024 digits with no leading zero digit (zero is      *)
(* <<>>), so that the model covers the whole int64 range.  A float64 with  *)
(* an integer mantissa is [neg, mag, exp], the value +-mag / 1024^exp:     *)
(* dividing a float64 by 1024 only lowers its binary exponent, so the      *)
(* divisions of line 81 are exact and only raise exp.                      *)
(***************************************************************************)
BytesPerKB == 1024

\* int64: the magnitude is below 2^63, or is 2^63 for the least value.
Int64Bits == 63

\* float64 keeps 53 significant bits.
MantissaBits == 53

suffixes == << <<"B">>, <<"K", "B">>, <<"M", "B">>, <<"G", "B">>,
               <<"T", "B">>, <<"P", "B">> >>

maxLen == Len(suffixes) - 1

RECURSIVE BitLen(_)
BitLen(d) == IF d = 0 THEN 0 ELSE 1 + BitLen(d \div 2)

DigitBits == BitLen(BytesPerKB - 1)

\* The magnitude without leading zero digits.
RECURSIVE Strip(_)
Strip(m) ==
    IF m # <<>> /\ m[Len(m)] = 0 THEN Strip(SubSeq(m, 1, Len(m) - 1)) ELSE m

\* Digits that may exceed the base, plus carry c, as proper digits.
RECURSIVE Carry(_, _)
Carry(m, c) ==
    IF m = <<>>
    THEN IF c = 0 THEN <<>> ELSE <<c % BytesPerKB>> \o Carry(<<>>, c \div BytesPerKB)
    ELSE <<(Head(m) + c) % BytesPerKB>>
             \o Carry(Tail(m), (Head(m) + c) \div BytesPerKB)

MagBitLen(m) ==
    IF m = <<>> THEN 0 ELSE DigitBits * (Len(m) - 1) + BitLen(m[Len(m)])

\* The magnitude of float64(b): b rounded to 53 significant bits, ties to
\* even.  An int64 has at most 64 significant bits, so the dropped bits lie
\* in the two lowest digits.
RoundToMantissa(m) ==
    LET k == MagBitLen(m) - MantissaBits IN
    IF k <= 0
    THEN m
    ELSE LET lowTwo == m[1] + BytesPerKB * m[2]
             low == lowTwo % (2 ^ k)
             half == 2 ^ (k - 1)
             odd == (lowTwo \div (2 ^ k)) % 2 = 1
             up == low > half \/ (low = half /\ odd)
             kept == lowTwo - low + (IF up THEN 2 ^ k ELSE 0)
         IN Strip(Carry(<<kept, 0>> \o SubSeq(m, 3, Len(m)), 0))

\* float64(b), line 73.
float64(x) == [neg |-> x.neg, mag |-> RoundToMantissa(x.mag), exp |-> 0]

\* bf / BytesPerKB
DivKB(bf) == [bf EXCEPT !.exp = @ + 1]

\* A variant that tests bf <= 1.
AtMostOne(bf) ==
    \/ bf.neg
    \/ Len(bf.mag) <= bf.exp
    \/ /\ Len(bf.mag) = bf.exp + 1
       /\ bf.mag[Len(bf.mag)] = 1
       /\ \A k \in 1..(Len(bf.mag) - 1) : bf.mag[k] = 0

\* bf < 1
LessThanOne(bf) == bf.neg \/ Len(bf.mag) <= bf.exp

\* Quotient and remainder of a magnitude by a small divisor d.
RECURSIVE DivSmall(_, _, _)
DivSmall(m, d, r) ==
    IF m = <<>>
    THEN [q |-> <<>>, r |-> r]
    ELSE LET cur == r * BytesPerKB + m[Len(m)]
             rest == DivSmall(SubSeq(m, 1, Len(m) - 1), d, cur % d)
         IN [q |-> Append(rest.q, cur \div d), r |-> rest.r]

DigitChar == <<"0", "1", "2", "3", "4", "5", "6", "7", "8", "9">>

RECURSIVE ToDecimal(_)
ToDecimal(m) ==
    IF Strip(m) = <<>>
    THEN <<>>
    ELSE LET qr == DivSmall(Strip(m), 10, 0) IN
         ToDecimal(qr.q) \o <<DigitChar[qr.r + 1]>>

\* The decimal digits of a magnitude.
Itoa(m) == IF Strip(m) = <<>> THEN <<"0">> ELSE ToDecimal(m)

\* The sum of a magnitude's digits: zero exactly when the magnitude is zero.
RECURSIVE DigitSum(_)
DigitSum(m) == IF m = <<>> THEN 0 ELSE Head(m) + DigitSum(Tail(m))

\* fmt.Sprintf("%.2f%s", bf, suffix), line 78: bf rounded to hundredths,
\* ties to even, in decimal, followed by the suffix.
Sprintf2f(bf, suffix) ==
    LET short == IF bf.exp > Len(bf.mag) THEN bf.exp - Len(bf.mag) ELSE 0
        padded == bf.mag \o [k \in 1..short |-> 0]
        frac == SubSeq(padded, 1, bf.exp)
        whole == Strip(SubSeq(padded, bf.exp + 1, Len(padded)))
        scaled == Carry([k \in 1..bf.exp |-> 100 * frac[k]] \o <<0>>, 0)
        q == scaled[bf.exp + 1]
        top == IF bf.exp = 0 THEN 0 ELSE scaled[bf.exp]
        below == DigitSum(SubSeq(scaled, 1, bf.exp - 1))
        halfDigit == BytesPerKB \div 2
        up == top > halfDigit
              \/ (top = halfDigit /\ (below > 0 \/ q % 2 = 1))
        cents == q + (IF up THEN 1 ELSE 0)
        intPart == IF cents = 100 THEN Strip(Carry(whole, 1)) ELSE whole
        c2 == cents % 100
    IN (IF bf.neg THEN <<"-">> ELSE <<>>)
       \o Itoa(intPart) \o <<".">>
       \o <<DigitChar[(c2 \div 10) + 1], DigitChar[(c2 % 10) + 1]>>
       \o suffix

\* The loop of lines 76-83 from (bf, i) on.
RECURSIVE unitLoop(_, _)
unitLoop(bf, i) ==
    IF LessThanOne(DivKB(bf)) \/ i >= maxLen
    THEN [i |-> i, bf |-> bf, description |-> Sprintf2f(bf, suffixes[i + 1])]
    ELSE unitLoop(DivKB(bf), i + 1)

\* Lines 73-83: the uncached computation.
describe(x) == unitLoop(float64(x), 0)

\* m[k |-> v] of a Go map.
MapPut(m, k, v) == [j \in DOMAIN m \cup {k} |-> IF j = k THEN v ELSE m[j]]

\* A variant that never stores what it computed.
byteDescriptionNoStore(c, x) ==
    [cache |-> c, description |-> describe(x).description, computed |-> TRUE,
     exit |-> [i |-> describe(x).i, bf |-> describe(x).bf]]

\* The closure of lines 67-86 on cache c and argument x.
byteDescription(c, x) ==
    IF x \in DOMAIN c
    THEN [cache |-> c, description |-> c[x], computed |-> FALSE]
    ELSE [cache |-> MapPut(c, x, describe(x).description),
          description |-> describe(x).description, computed |-> TRUE,
          exit |-> [i |-> describe(x).i, bf |-> describe(x).bf]]

\* The byte counts the formatter is tried on: every digit count an int64
\* has, with digits at and next to the ends and the middle of a digit's range.
TopDigits == {1, 7, 8, 512, 1023}
MidDigits == {0, 1023}
LowDigits == {0, 1, 3, 128, 511, 512, 513, 1023}

ProbeMags ==
    {<<>>} \cup {<<t>> : t \in LowDigits \ {0}}
    \cup UNION {{<<l>> \o [k \in 1..(n - 2) |-> m] \o <<t>> :
                    l \in LowDigits, m \in MidDigits, t \in TopDigits} :
                n \in 2..(Int64Bits \div DigitBits + 1)}

InInt64(x) ==
    /\ x.mag = <<>> => ~x.neg
    /\ \/ MagBitLen(x.mag) <= Int64Bits
       \/ /\ x.neg
          /\ MagBitLen(x.mag) = Int64Bits + 1
          /\ DigitSum(x.mag) = x.mag[Len(x.mag)]
          /\ BitLen(x.mag[Len(x.mag)] - 1) < BitLen(x.mag[Len(x.mag)])

ProbeCounts ==
    {x \in [neg : BOOLEAN, mag : ProbeMags] : InInt64(x)}

Int64(m) == [neg |-> FALSE, mag |-> m]
NegInt64(m) == [neg |-> TRUE, mag |-> m]

\* The byte counts the cache is exercised with; the last two differ as
\* integers and agree as float64.
CacheKeys ==
    {Int64(<<>>), Int64(<<1023>>), Int64(<<0, 1>>), NegInt64(<<1>>),
     Int64(<<0, 0, 0, 0, 0, 8>>), Int64(<<1, 0, 0, 0, 0, 8>>)}

MaxCalls == 4

EmptyMap == <<>>

-----------------------------------------------------------------------------
(* remotePathSplit, misc.go:144-152, and the strings functions it calls *)

\* strings.Index(s, sub) as a Go index, -1 when sub does not occur in s.
Index(s, sub) ==
    LET at == {i \in 0..(Len(s) - Len(sub)) : HasPrefix(Suffix(s, i), sub)} IN
    IF at = {} THEN -1 ELSE CHOOSE i \in at : \A j \in at : i <= j

\* strings.Split(s, sep) for a non-empty sep.
RECURSIVE Split(_, _)
Split(s, sep) ==
    IF Index(s, sep) < 0
    THEN <<s>>
    ELSE <<Prefix(s, Index(s, sep))>>
             \o Split(Suffix(s, Index(s, sep) + Len(sep)), sep)

\* strings.Join(elems, sep)
RECURSIVE Join(_, _)
Join(elems, sep) ==
    IF elems = <<>>
    THEN <<>>
    ELSE IF Len(elems) = 1
         THEN elems[1]
         ELSE elems[1] \o sep \o Join(Tail(elems), sep)

\* strings.Replace(s, old, new, -1) for a non-empty old.
RECURSIVE Replace(_, _, _)
Replace(s, old, new) ==
    IF Index(s, old) < 0
    THEN s
    ELSE Prefix(s, Index(s, old)) \o new
             \o Replace(Suffix(s, Index(s, old) + Len(old)), old, new)

\* sepJoin, lines 91-93
sepJoin(sep, elems) == Join(elems, sep)

Slash == <<"/">>

\* A variant that splits as filepath.Split does: dir keeps its final "/".
remotePathSplitKeepSep(path) ==
    LET sp == Split(path, Slash)
        spl == Len(sp)
    IN [dir |-> Prefix(path, Len(path) - Len(sp[spl])),
        base |-> sp[spl]]

remotePathSplit(path) ==
    LET sp == Split(path, Slash)
        spl == Len(sp)
        dirL == SubSeq(sp, 1, spl - 1)
        baseL == SubSeq(sp, spl, spl)
    IN [dir |-> Join(dirL, Slash), base |-> Join(baseL, Slash)]

PathBytes == {"/", "a", "b"}

MaxPathLen == 4

PathInputs == StringsUpTo(PathBytes, MaxPathLen)

-----------------------------------------------------------------------------
(* The file system and os.File, as the two file operations use them *)

NoError == "nil"

NL == "\n"
CR == "\r"
Space == " "

\* A path of the file system holds a file with some bytes, or nothing.
NoFile == [exists |-> FALSE, data |-> <<>>]
FileOf(data) == [exists |-> TRUE, data |-> data]

InPath == "in"
DestPath == "out"
Paths == {InPath, DestPath}

\* One system call of a trace.
Event(op, fd, err, n) == [op |-> op, fd |-> fd, err |-> err, n |-> n]

\* os.Open(path): fault is the failure the environment injects (NoError for
\* none); a path that holds no file fails with ENOENT.  A handle is its
\* index in the handle table.
osOpen(w, path, fault) ==
    LET err == IF fault # NoError THEN fault
               ELSE IF ~w.disk[path].exists THEN "ENOENT" ELSE NoError
        fd == IF err = NoError THEN Len(w.handles) + 1 ELSE 0
    IN [err |-> err, fd |-> fd, disk |-> w.disk,
        handles |-> IF err = NoError
                    THEN Append(w.handles,
                                [path |-> path, open |-> TRUE, closes |-> 0])
                    ELSE w.handles,
        event |-> Event("open", fd, err, 0)]

\* os.Create(path): creates the file or truncates it.
osCreate(w, path, fault) ==
    LET fd == IF fault = NoError THEN Len(w.handles) + 1 ELSE 0
    IN [err |-> fault, fd |-> fd,
        disk |-> IF fault = NoError
                 THEN [w.disk EXCEPT ![path] = FileOf(<<>>)]
                 ELSE w.disk,
        handles |-> IF fault = NoError
                    THEN Append(w.handles,
                                [path |-> path, open |-> TRUE, closes |-> 0])
                    ELSE w.handles,
        event |-> Event("create", fd, fault, 0)]

\* (*os.File).Close
Close(hs, fd) ==
    [hs EXCEPT ![fd] = [@ EXCEPT !.open = FALSE, !.closes = @ + 1]]

\* The number of bytes a write of text stores under the environment's write
\* fault: all of them, none, or the first half.
Stored(text, wfault) ==
    CASE wfault = "none" -> Len(text)
      [] wfault = "atStart" -> 0
      [] wfault = "midway" -> Len(text) \div 2

WriteFaults == {"none", "atStart", "midway"}

\* fmt.Fprintf(handle, ...) once the text is formatted: one Write, which
\* reports the bytes it stored and, when they are not all, the failure.
Fprintf(w, fd, text, wfault) ==
    LET n == Stored(text, wfault)
        err == IF n < Len(text) THEN "EIO" ELSE NoError
        path == w.handles[fd].path
    IN [n |-> n, err |-> err,
        disk |-> [w.disk EXCEPT ![path] = FileOf(@.data \o Prefix(text, n))],
        event |-> Event("write", fd, err, n)]

-----------------------------------------------------------------------------
(* readCommentedFile, misc.go:196-219 *)

\* bufio.MaxScanTokenSize is 64 * 1024; the model scales it down so that the
\* bounded files hold lines that reach it.
MaxScanTokenSize == 4

\* dropCR of bufio.ScanLines
dropCR(data) ==
    IF Len(data) > 0 /\ data[Len(data)] = CR
    THEN Prefix(data, Len(data) - 1)
    ELSE data

\* The tokens the successive scanner.Scan() calls of line 207 deliver before
\* Scan returns false: the lines of data (bufio.ScanLines), up to the end of
\* the data or to the first line that does not fit the scanner's buffer,
\* at which Scan fails with ErrTooLong.
RECURSIVE ScanTokens(_)
ScanTokens(data) ==
    IF data = <<>>
    THEN <<>>
    ELSE LET m == Index(data, <<NL>>)
             line == IF m < 0 THEN data ELSE Prefix(data, m)
         IN IF Len(line) >= MaxScanTokenSize
            THEN <<>>
            ELSE IF m < 0
                 THEN <<dropCR(line)>>
                 ELSE <<dropCR(line)>> \o ScanTokens(Suffix(data, m + 1))

RECURSIVE TrimLeft(_, _)
TrimLeft(s, cutset) ==
    IF s # <<>> /\ Head(s) \in cutset THEN TrimLeft(Tail(s), cutset) ELSE s

RECURSIVE TrimRight(_, _)
TrimRight(s, cutset) ==
    IF s # <<>> /\ s[Len(s)] \in cutset
    THEN TrimRight(Prefix(s, Len(s) - 1), cutset)
    ELSE s

\* strings.Trim(s, cutset), with the cutset as a set of bytes
Trim(s, cutset) == TrimRight(TrimLeft(s, cutset), cutset)

\* The body of the loop of lines 206-217 over the tokens still to come.
RECURSIVE scanLoop(_, _, _)
scanLoop(tokens, comment, clauses) ==
    IF tokens = <<>>
    THEN clauses
    ELSE LET line == Trim(Trim(Head(tokens), {Space}), {NL}) IN
         IF HasPrefix(line, comment) \/ Len(line) < 1
         THEN scanLoop(Tail(tokens), comment, clauses)
         ELSE scanLoop(Tail(tokens), comment, Append(clauses, line))

\* A variant that leaves the handle open when it returns.
readCommentedFileNoClose(w, path, comment, fault) ==
    LET o == osOpen(w, path, fault) IN
    IF o.err # NoError \/ o.fd = 0
    THEN [disk |-> w.disk, handles |-> o.handles, trace |-> <<o.event>>,
          ret |-> [clauses |-> <<>>, err |-> o.err]]
    ELSE [disk |-> w.disk, handles |-> o.handles,
          trace |-> <<o.event, Event("read", o.fd, NoError, 0)>>,
          ret |-> [clauses |-> scanLoop(ScanTokens(w.disk[path].data),
                                        comment, <<>>),
                   err |-> NoError]]

\* A variant that drops the failure of the open.
readCommentedFileNoErr(w, path, comment, fault) ==
    LET o == osOpen(w, path, fault) IN
    IF o.err # NoError \/ o.fd = 0
    THEN [disk |-> w.disk, handles |-> o.handles, trace |-> <<o.event>>,
          ret |-> [clauses |-> <<>>, err |-> NoError]]
    ELSE [disk |-> w.disk, handles |-> Close(o.handles, o.fd),
          trace |-> <<o.event, Event("read", o.fd, NoError, 0),
                      Event("close", o.fd, NoError, 0)>>,
          ret |-> [clauses |-> scanLoop(ScanTokens(w.disk[path].data),
                                        comment, <<>>),
                   err |-> NoError]]

\* A variant that tests the marker only when there is one.
readCommentedFileSkipNoMarker(w, path, comment, fault) ==
    LET o == osOpen(w, path, fault) IN
    IF o.err # NoError \/ o.fd = 0
    THEN [disk |-> w.disk, handles |-> o.handles, trace |-> <<o.event>>,
          ret |-> [clauses |-> <<>>, err |-> o.err]]
    ELSE [disk |-> w.disk, handles |-> Close(o.handles, o.fd),
          trace |-> <<o.event, Event("read", o.fd, NoError, 0),
                      Event("close", o.fd, NoError, 0)>>,
          ret |-> [clauses |->
                       IF comment = <<>>
                       THEN scanLoop(ScanTokens(w.disk[path].data),
                                     <<NL>>, <<>>)
                       ELSE scanLoop(ScanTokens(w.disk[path].data),
                                     comment, <<>>),
                   err |-> NoError]]

\* readCommentedFile on the world w = [disk, handles]: the world it leaves,
\* the system calls it made and what it returns.  The deferred Close of
\* line 203 runs as the function returns.
readCommentedFile(w, path, comment, fault) ==
    LET o == osOpen(w, path, fault) IN
    IF o.err # NoError \/ o.fd = 0
    THEN [disk |-> w.disk, handles |-> o.handles, trace |-> <<o.event>>,
          ret |-> [clauses |-> <<>>, err |-> o.err]]
    ELSE [disk |-> w.disk, handles |-> Close(o.handles, o.fd),
          trace |-> <<o.event, Event("read", o.fd, NoError, 0),
                      Event("close", o.fd, NoError, 0)>>,
          ret |-> [clauses |-> scanLoop(ScanTokens(w.disk[path].data),
                                        comment, <<>>),
                   err |-> NoError]]

FileBytes == {Space, "#", "a", NL}

MaxFileLen == 5

FileContents == StringsUpTo(FileBytes, MaxFileLen)

Markers == {<<>>, <<"#">>, <<"a">>, <<"#", "#">>}

OpenFaults == {NoError, "EACCES"}

-----------------------------------------------------------------------------
(* toDesktopEntry and serializeAsDesktopEntry, misc.go:119-142 *)

MimeTypeJoiner == <<"-">>

\* Declared elsewhere in package drive: the path separator as a string.
UnescapedPathSep == <<"/">>

\* Declared elsewhere in package drive: the Type of a link entry.
LinkKey == <<"L", "i", "n", "k">>

Header == <<"[", "D", "e", "s", "k", "t", "o", "p", " ",
            "E", "n", "t", "r", "y", "]", NL>>
IconKey == <<"I", "c", "o", "n", "=">>
NameKey == <<"N", "a", "m", "e", "=">>
TypeKey == <<"T", "y", "p", "e", "=">>
URLKey == <<"U", "R", "L", "=">>

\* A variant that joins the extension even when it is empty.
toDesktopEntryAlwaysExt(f, urlMExt) ==
    [name |-> sepJoin(<<"-">>, <<f.Name, urlMExt.ext>>),
     url |-> urlMExt.url,
     icon |-> urlMExt.mimeType]

\* Lines 119-129
toDesktopEntry(f, urlMExt) ==
    [name |-> IF urlMExt.ext # <<>>
              THEN sepJoin(<<"-">>, <<f.Name, urlMExt.ext>>)
              ELSE f.Name,
     url |-> urlMExt.url,
     icon |-> urlMExt.mimeType]

\* The format string of line 140 with its four arguments filled in.
EntryText(icon, name, type, url) ==
    Header \o IconKey \o icon \o <<NL>> \o NameKey \o name \o <<NL>>
           \o TypeKey \o type \o <<NL>> \o URLKey \o url \o <<NL>>

\* serializeAsDesktopEntry on the world w = [disk, handles]: the world it
\* leaves, the system calls it made and what it returns.  The deferred Close
\* of line 137 runs as the function returns, whatever the write did.
serializeAsDesktopEntry(w, f, destPath, urlMExt, fault, wfault) ==
    LET deskEnt == toDesktopEntry(f, urlMExt)
        c == osCreate(w, destPath, fault)
    IN IF c.err # NoError
       THEN [disk |-> c.disk, handles |-> c.handles, trace |-> <<c.event>>,
             ret |-> [n |-> 0, err |-> c.err]]
       ELSE LET icon == Replace(deskEnt.icon, UnescapedPathSep, MimeTypeJoiner)
                wr == Fprintf([disk |-> c.disk, handles |-> c.handles], c.fd,
                              EntryText(icon, deskEnt.name, LinkKey, deskEnt.url),
                              wfault)
            IN [disk |-> wr.disk, handles |-> Close(c.handles, c.fd),
                trace |-> <<c.event, wr.event, Event("close", c.fd, NoError, 0)>>,
                ret |-> [n |-> wr.n, err |-> wr.err]]

Names == {<<>>, <<"D", "o", "c">>}
Exts == {<<>>, <<"p", "d", "f">>}
URLs == {<<"h", ":", "/", "/", "x", "/", "y">>, <<>>}
MimeBytes == {"/", "a", "-"}

MaxMimeLen == 3

MimeTypes == StringsUpTo(MimeBytes, MaxMimeLen)

Files == [Name : Names]
UrlMimeTypeExts == [ext : Exts, mimeType : MimeTypes, url : URLs]

-----------------------------------------------------------------------------
(* The operations as actions *)

\* No operation has run: package initialisation has built prettyBytes
\* (line 89) with an empty cache, and no file is open.
Quiet == pc = "idle" /\ ncalls = 0 /\ before = [op |-> "none"]

NoPrefixCall == values = <<>> /\ prefix = <<>>

NoBytesCall ==
    /\ b = Int64(<<>>)
    /\ description = <<>>
    /\ cache = EmptyMap
    /\ passed = {}
    /\ firstRet = EmptyMap
    /\ loopExit = [i |-> 0, bf |-> float64(Int64(<<>>))]

NoPathCall == p = <<>> /\ split = [dir |-> <<>>, base |-> <<>>]

NoFileCall ==
    /\ handles = <<>>
    /\ trace = <<>>
    /\ args = [op |-> "none"]
    /\ ret = [err |-> NoError]

NoFiles == [path \in Paths |-> NoFile]

\* commonPrefix(values...)
CallCommonPrefix ==
    /\ pc = "idle"
    /\ pc' = "commonPrefix"
    /\ prefix' = commonPrefix(values)
    /\ UNCHANGED <<values, bytesVars, ncalls, pathVars, ioVars, before>>

\* prettyBytes(x): a call of the package's formatter, whose cache persists.
CallPrettyBytes(x) ==
    LET r == byteDescription(cache, x) IN
    /\ pc' = "prettyBytes"
    /\ b' = x
    /\ description' = r.description
    /\ cache' = r.cache
    /\ passed' = passed \cup {x}
    /\ firstRet' = IF x \in passed THEN firstRet
                   ELSE MapPut(firstRet, x, r.description)
    /\ loopExit' = IF r.computed THEN r.exit ELSE loopExit
    /\ ncalls' = ncalls + 1
    /\ before' = [cache |-> cache]
    /\ UNCHANGED <<prefixVars, pathVars, ioVars>>

\* remotePathSplit(p)
CallRemotePathSplit ==
    /\ pc = "idle"
    /\ pc' = "remotePathSplit"
    /\ split' = remotePathSplit(p)
    /\ UNCHANGED <<p, prefixVars, bytesVars, ncalls, ioVars, before>>

CallReadCommentedFile(path, comment, fault) ==
    LET r == readCommentedFile([disk |-> disk, handles |-> handles],
                               path, comment, fault) IN
    /\ pc' = "readCommentedFile"
    /\ args' = [op |-> "readCommentedFile", p |-> path, comment |-> comment]
    /\ disk' = r.disk
    /\ handles' = r.handles
    /\ trace' = r.trace
    /\ ret' = r.ret
    /\ ncalls' = ncalls + 1
    /\ before' = [disk |-> disk, handles |-> handles]
    /\ UNCHANGED <<prefixVars, bytesVars, pathVars>>

CallSerializeAsDesktopEntry(f, destPath, urlMExt, fault, wfault) ==
    LET r == serializeAsDesktopEntry([disk |-> disk, handles |-> handles],
                                     f, destPath, urlMExt, fault, wfault) IN
    /\ pc' = "serializeAsDesktopEntry"
    /\ args' = [op |-> "serializeAsDesktopEntry", f |-> f,
                destPath |-> destPath, urlMExt |-> urlMExt]
    /\ disk' = r.disk
    /\ handles' = r.handles
    /\ trace' = r.trace
    /\ ret' = r.ret
    /\ ncalls' = ncalls + 1
    /\ before' = [disk |-> disk, handles |-> handles]
    /\ UNCHANGED <<prefixVars, bytesVars, pathVars>>

-----------------------------------------------------------------------------
(* Specifications, one per component *)

\* commonPrefix on every bounded argument list
PrefixInit ==
    /\ Quiet /\ NoBytesCall /\ NoPathCall /\ NoFileCall /\ disk = NoFiles
    /\ values \in PrefixInputs
    /\ prefix = <<>>
PrefixNext == CallCommonPrefix
SpecPrefix == PrefixInit /\ [][PrefixNext]_vars

\* the first call of the formatter, on every probe byte count
BytesInit ==
    /\ Quiet /\ NoPrefixCall /\ NoBytesCall /\ NoPathCall /\ NoFileCall
    /\ disk = NoFiles
BytesNext == \E x \in ProbeCounts : pc = "idle" /\ CallPrettyBytes(x)
SpecBytes == BytesInit /\ [][BytesNext]_vars

\* sequences of calls on the package's one formatter
CacheNext == \E x \in CacheKeys : ncalls < MaxCalls /\ CallPrettyBytes(x)
SpecCache == BytesInit /\ [][CacheNext]_vars

\* remotePathSplit on every bounded path
PathInit ==
    /\ Quiet /\ NoPrefixCall /\ NoBytesCall /\ NoFileCall /\ disk = NoFiles
    /\ p \in PathInputs
    /\ split = [dir |-> <<>>, base |-> <<>>]
PathNext == CallRemotePathSplit
SpecPath == PathInit /\ [][PathNext]_vars

\* readCommentedFile on every bounded file
ReadInit ==
    /\ Quiet /\ NoPrefixCall /\ NoBytesCall /\ NoPathCall /\ NoFileCall
    /\ \E data \in FileContents :
           disk = [NoFiles EXCEPT ![InPath] = FileOf(data)]
ReadNext ==
    \E comment \in Markers, fault \in OpenFaults :
        pc = "idle" /\ CallReadCommentedFile(InPath, comment, fault)
SpecRead == ReadInit /\ [][ReadNext]_vars

\* serializeAsDesktopEntry on every bounded file identity and descriptor
DeskNext ==
    \E f \in Files, u \in UrlMimeTypeExts,
       fault \in OpenFaults, wfault \in WriteFaults :
        /\ pc = "idle"
        /\ CallSerializeAsDesktopEntry(f, DestPath, u, fault, wfault)
DeskInit ==
    /\ Quiet /\ NoPrefixCall /\ NoBytesCall /\ NoPathCall /\ NoFileCall
    /\ disk \in {NoFiles, [NoFiles EXCEPT ![DestPath] = FileOf(<<"o", "l", "d">>)]}
SpecDesk == DeskInit /\ [][DeskNext]_vars

\* sequences of the two file operations on one file system
IOFile == <<"#", "a", NL, Space, "a", NL>>
IOEntry == [ext |-> <<"p", "d", "f">>, mimeType |-> <<"a", "/", "a">>,
            url |-> <<"h", ":", "/", "/", "x", "/", "y">>]

MaxIOCalls == 3

IOInit ==
    /\ Quiet /\ NoPrefixCall /\ NoBytesCall /\ NoPathCall /\ NoFileCall
    /\ disk \in {NoFiles, [NoFiles EXCEPT ![InPath] = FileOf(IOFile)]}
IORead ==
    \E path \in Paths, fault \in OpenFaults :
        ncalls < MaxIOCalls /\ CallReadCommentedFile(path, <<"#">>, fault)
IOWrite ==
    \E fault \in OpenFaults, wfault \in WriteFaults :
        /\ ncalls < MaxIOCalls
        /\ CallSerializeAsDesktopEntry([Name |-> <<"D", "o", "c">>], DestPath,
                                       IOEntry, fault, wfault)
IONext == IORead \/ IOWrite
SpecIO == IOInit /\ [][IONext]_vars

-----------------------------------------------------------------------------
(* commonPrefix: claims C1, C2 *)

\* q is a prefix of every string of vs.
IsCommonPrefix(q, vs) == \A i \in 1..Len(vs) : HasPrefix(vs[i], q)

\* The longest string that is a prefix of every string of a non-empty vs.
LongestCommonPrefix(vs) ==
    CHOOSE q \in {Prefix(vs[1], k) : k \in 0..Len(vs[1])} :
        /\ IsCommonPrefix(q, vs)
        /\ \A k \in 0..Len(vs[1]) :
               IsCommonPrefix(Prefix(vs[1], k), vs) => k <= Len(q)

\* C1: for a non-empty list of non-empty strings commonPrefix returns the
\* longest string that is a prefix of every input, so the length of the
\* result is the index of the first mismatch.
C1_LongestCommonPrefix ==
    (/\ pc = "commonPrefix"
     /\ values # <<>>
     /\ \A i \in 1..Len(values) : values[i] # <<>>)
        => prefix = LongestCommonPrefix(values)

\* C2: commonPrefix returns "" when called with no input and whenever some
\* input, the first included, is the empty string.
C2_EmptyInputGivesEmpty ==
    (/\ pc = "commonPrefix"
     /\ \/ values = <<>>
        \/ \E i \in 1..Len(values) : values[i] = <<>>)
        => prefix = <<>>

\* The empty string first, a non-empty string after it, and "" returned.
C2_Witness ==
    /\ pc = "commonPrefix"
    /\ Len(values) >= 2
    /\ values[1] = <<>>
    /\ values[2] # <<>>
    /\ prefix = <<>>

-----------------------------------------------------------------------------
(* memoizeBytes: claims C3, C4 *)

\* b < 1024
Below1024(x) == x.neg \/ Len(x.mag) <= 1

\* 1024^k <= b < 1024^(k+1)
InUnitRange(x, k) == ~x.neg /\ Len(x.mag) = k + 1

\* b >= 1024^k
AtLeastPow(x, k) == ~x.neg /\ Len(x.mag) >= k + 1

\* |b| <= 2^53: the integers float64 holds without rounding.
HeldExactly(x) ==
    \/ MagBitLen(x.mag) <= MantissaBits
    \/ /\ MagBitLen(x.mag) = MantissaBits + 1
       /\ DigitSum(x.mag) = x.mag[Len(x.mag)]
       /\ BitLen(x.mag[Len(x.mag)] - 1) < BitLen(x.mag[Len(x.mag)])

\* The value of the two lowest digits of a magnitude, and the digits above.
LowTwo(m) == m[1] + BytesPerKB * m[2]
Above(m) == Strip(SubSeq(m, 3, Len(m)))

\* r - m for magnitudes r and m that differ by less than 1024^2 (and a
\* value beyond that when they differ by more).
Distance(r, m) ==
    IF Above(r) = Above(m)
    THEN LowTwo(r) - LowTwo(m)
    ELSE IF Above(r) = Strip(Carry(Above(m), 1))
         THEN LowTwo(r) - LowTwo(m) + BytesPerKB * BytesPerKB
         ELSE BytesPerKB * BytesPerKB * BytesPerKB

\* r is m rounded to 53 significant bits: r has no more than 53 significant
\* bits and lies within half a unit of m's 53rd bit of m.
IsRounded(r, m) ==
    LET k == MagBitLen(m) - MantissaBits
        d == Distance(r, m)
    IN /\ LowTwo(r) % (2 ^ (MagBitLen(r) - MantissaBits)) = 0
       /\ d <= 2 ^ (k - 1)
       /\ -d <= 2 ^ (k - 1)

\* The running value bf lies in [1, 1024).
InOneTo1024(bf) == ~bf.neg /\ Len(bf.mag) = bf.exp + 1

\* s ends with the unit suffix suf, right after a digit.
ReportedIn(s, suf) ==
    /\ Len(s) > Len(suf)
    /\ Suffix(s, Len(s) - Len(suf)) = suf
    /\ \E k \in DOMAIN DigitChar : s[Len(s) - Len(suf)] = DigitChar[k]

\* What C3 says of every byte count but the value reported below 1024.
C3_Units ==
    /\ loopExit.i \in 0..maxLen
    /\ loopExit.i = loopExit.bf.exp
    /\ ReportedIn(description, suffixes[loopExit.i + 1])
    /\ Below1024(b) => loopExit.i = 0
    /\ \A k \in 1..(maxLen - 1) :
           InUnitRange(b, k) => /\ loopExit.i = k
                                /\ InOneTo1024(loopExit.bf)
                                /\ loopExit.bf.mag = b.mag
    /\ AtLeastPow(b, maxLen) => loopExit.i = maxLen
    /\ AtLeastPow(b, maxLen + 1) => Len(loopExit.bf.mag) >= loopExit.bf.exp + 2
    /\ b = Int64(<<1023>>)
           => description = <<"1", "0", "2", "3", ".", "0", "0", "B">>
    /\ b = Int64(<<0, 1>>) => description = <<"1", ".", "0", "0", "K", "B">>
    /\ b = Int64(<<0, 0, 1>>) => description = <<"1", ".", "0", "0", "M", "B">>

\* C3 as claimed: the unit is picked by repeated division by 1024, and every
\* b < 1024, every negative b included, is reported in B with value b
\* unchanged.
C3_ValueUnchangedBelow1024 ==
    pc = "prettyBytes"
        => /\ C3_Units
           /\ Below1024(b) => loopExit.bf = [neg |-> b.neg, mag |-> b.mag, exp |-> 0]

\* C3 as amended: the unit is picked by repeated division by 1024, and every
\* b < 1024 is reported in B with the value float64(b): b unchanged when
\* |b| <= 2^53, and b rounded to 53 significant bits otherwise.
C3_UnitByRepeatedDivision ==
    pc = "prettyBytes"
        => /\ C3_Units
           /\ Below1024(b) =>
                  /\ loopExit.bf.neg = b.neg
                  /\ loopExit.bf.exp = 0
                  /\ HeldExactly(b) => loopExit.bf.mag = b.mag
                  /\ ~HeldExactly(b) => IsRounded(loopExit.bf.mag, b.mag)

\* -(2^53 + 1) is reported in B as -2^53.
C3_Witness ==
    /\ pc = "prettyBytes"
    /\ b = NegInt64(<<1, 0, 0, 0, 0, 8>>)
    /\ loopExit = [i |-> 0,
                   bf |-> [neg |-> TRUE, mag |-> <<0, 0, 0, 0, 0, 8>>, exp |-> 0]]
    /\ description = <<"-", "9", "0", "0", "7", "1", "9", "9", "2", "5", "4",
                       "7", "4", "0", "9", "9", "2", ".", "0", "0", "B">>

\* C4: the cache's keys are the byte counts passed so far, every entry is
\* what the uncached computation gives for its key, no entry is removed or
\* changed, a call on a cached input returns the cached string and leaves
\* the cache as it was, and every call returns what the first call with
\* the same input returned.
C4_CacheIsExactAndStable ==
    /\ DOMAIN cache = passed
    /\ \A k \in passed : cache[k] = describe(k).description
    /\ \A k \in passed : cache[k] = firstRet[k]
    /\ pc = "prettyBytes" =>
           /\ description = firstRet[b]
           /\ \A k \in DOMAIN before.cache :
                  k \in DOMAIN cache /\ cache[k] = before.cache[k]
           /\ b \in DOMAIN before.cache =>
                  cache = before.cache /\ description = before.cache[b]

\* A second call with a byte count already cached, with two counts cached.
C4_Witness ==
    /\ pc = "prettyBytes"
    /\ b \in DOMAIN before.cache
    /\ description = before.cache[b]
    /\ cache = before.cache
    /\ Cardinality(passed) >= 2

-----------------------------------------------------------------------------
(* remotePathSplit: claim C5 *)

\* The TLA+ index of the last "/" of path, 0 when it has none.
LastSlash(path) ==
    LET at == {i \in 1..Len(path) : path[i] = "/"} IN
    IF at = {} THEN 0 ELSE CHOOSE i \in at : \A j \in at : j <= i

\* C5: base is the text after the last "/" of p and dir the text before it,
\* with nothing collapsed or stripped: without a "/" dir is "" and base is p,
\* a final "/" gives an empty base, base holds no "/", and with a "/" in p,
\* dir + "/" + base = p.
C5_SplitAtLastSlash ==
    pc = "remotePathSplit" =>
        /\ split.base = SubSeq(p, LastSlash(p) + 1, Len(p))
        /\ split.dir = SubSeq(p, 1, LastSlash(p) - 1)
        /\ \A i \in 1..Len(split.base) : split.base[i] # "/"
        /\ LastSlash(p) = 0 => split.dir = <<>> /\ split.base = p
        /\ (p # <<>> /\ p[Len(p)] = "/") => split.base = <<>>
        /\ LastSlash(p) > 0 => split.dir \o <<"/">> \o split.base = p

\* "a//" splits into dir "a/" and an empty base.
C5_Witness ==
    /\ pc = "remotePathSplit"
    /\ p = <<"a", "/", "/">>
    /\ split = [dir |-> <<"a", "/">>, base |-> <<>>]

-----------------------------------------------------------------------------
(* readCommentedFile: claims C6, C10 *)

\* The lines of a file: the text between its newlines, a final newline
\* ending the last line rather than starting an empty one.
LinesOf(data) ==
    LET parts == Split(data, <<NL>>) IN
    IF parts[Len(parts)] = <<>> THEN SubSeq(parts, 1, Len(parts) - 1) ELSE parts

\* A line without its leading and trailing spaces.
TrimmedForm(line) ==
    LET at == {i \in 1..Len(line) : line[i] # Space} IN
    IF at = {}
    THEN <<>>
    ELSE SubSeq(line, CHOOSE i \in at : \A j \in at : i <= j,
                      CHOOSE i \in at : \A j \in at : j <= i)

\* The trimmed lines of data that are not empty and do not start with the marker.
Directives(data, marker) ==
    SelectSeq([k \in 1..Len(LinesOf(data)) |-> TrimmedForm(LinesOf(data)[k])],
              LAMBDA t : t # <<>> /\ ~HasPrefix(t, marker))

Opened == trace # <<>> /\ trace[1].err = NoError

\* C6: when the file opens, readCommentedFile returns, in file order, exactly
\* the trimmed form of each line whose trimmed form is not empty and does not
\* start with the comment marker.
C6_ReturnsEveryDirective ==
    (pc = "readCommentedFile" /\ Opened)
        => ret.clauses = Directives(disk[args.p].data, args.comment)

\* C10: with the empty string as the comment marker every line counts as a
\* comment, so the call returns no line, and no error, whatever the file holds.
C10_EmptyMarkerDropsEveryLine ==
    (pc = "readCommentedFile" /\ Opened /\ args.comment = <<>>)
        => ret.clauses = <<>> /\ ret.err = NoError

\* A file with the line "a" read with the empty marker returns nothing.
C10_Witness ==
    /\ pc = "readCommentedFile"
    /\ Opened
    /\ args.comment = <<>>
    /\ disk[InPath].data = <<"a", NL, "#", "a", NL>>
    /\ ret = [clauses |-> <<>>, err |-> NoError]

-----------------------------------------------------------------------------
(* serializeAsDesktopEntry: claim C7 *)

\* s with every "/" turned into "-".
Dashed(s) == [k \in 1..Len(s) |-> IF s[k] = "/" THEN "-" ELSE s[k]]

\* The five lines of a desktop entry, each ended by a newline.
ExpectedEntry(f, urlMExt) ==
    Join(<<<<"[", "D", "e", "s", "k", "t", "o", "p", " ",
             "E", "n", "t", "r", "y", "]">>,
           IconKey \o Dashed(urlMExt.mimeType),
           NameKey \o (IF urlMExt.ext = <<>>
                       THEN f.Name
                       ELSE f.Name \o <<"-">> \o urlMExt.ext),
           TypeKey \o LinkKey,
           URLKey \o urlMExt.url>>, <<NL>>) \o <<NL>>

Created == trace # <<>> /\ trace[1].op = "create" /\ trace[1].err = NoError

\* C7: the file written holds the header line and the lines Icon=, Name=,
\* Type=, URL= in that order and nothing else, with Name joined to a
\* non-empty extension by "-", Icon the content type with every "/" replaced
\* by "-", Type the constant marker and URL unchanged; a write that fails
\* leaves the first ret.n bytes of that text.
C7_EntryFormat ==
    (pc = "serializeAsDesktopEntry" /\ Created) =>
        /\ ret.n <= Len(ExpectedEntry(args.f, args.urlMExt))
        /\ disk[args.destPath].data
               = Prefix(ExpectedEntry(args.f, args.urlMExt), ret.n)
        /\ ret.err = NoError => ret.n = Len(ExpectedEntry(args.f, args.urlMExt))

\* "Doc" with extension "pdf" and content type "a/a", fully written over a
\* file that held other bytes.
C7_Witness ==
    /\ pc = "serializeAsDesktopEntry"
    /\ ret.err = NoError
    /\ before.disk[DestPath].exists
    /\ args.f.Name = <<"D", "o", "c">>
    /\ args.urlMExt = [ext |-> <<"p", "d", "f">>, mimeType |-> <<"a", "/", "a">>,
                       url |-> <<"h", ":", "/", "/", "x", "/", "y">>]
    /\ disk[DestPath].data =
           Header \o <<"I", "c", "o", "n", "=", "a", "-", "a", NL,
                       "N", "a", "m", "e", "=", "D", "o", "c", "-", "p", "d", "f", NL,
                       "T", "y", "p", "e", "=", "L", "i", "n", "k", NL,
                       "U", "R", "L", "=", "h", ":", "/", "/", "x", "/", "y", NL>>

-----------------------------------------------------------------------------
(* Failures and handles of the two file operations: claims C8, C9 *)

FileOp == pc \in {"readCommentedFile", "serializeAsDesktopEntry"}

\* The positions of the trace that hold a system call among ops.
CallsOf(ops) == {i \in 1..Len(trace) : trace[i].op \in ops}

\* C8: a failed open makes readCommentedFile return that failure and no line
\* without reading; a failed create makes serializeAsDesktopEntry return
\* that failure and 0 and write nothing; either makes one open or create
\* attempt; and readCommentedFile returns no error once the file has opened.
C8_OpenAndCreateFailures ==
    FileOp =>
        /\ Cardinality(CallsOf({"open", "create"})) = 1
        /\ trace[1].op \in {"open", "create"}
        /\ (pc = "readCommentedFile" /\ ~Opened) =>
               /\ ret = [clauses |-> <<>>, err |-> trace[1].err]
               /\ ret.err # NoError
               /\ CallsOf({"read"}) = {}
        /\ (pc = "serializeAsDesktopEntry" /\ ~Created) =>
               /\ ret = [n |-> 0, err |-> trace[1].err]
               /\ ret.err # NoError
               /\ CallsOf({"write"}) = {}
               /\ disk = before.disk
        /\ (pc = "readCommentedFile" /\ Opened) => ret.err = NoError

\* readCommentedFile on a path that holds no file.
C8_Witness ==
    /\ pc = "readCommentedFile"
    /\ ~disk[args.p].exists
    /\ ret = [clauses |-> <<>>, err |-> "ENOENT"]
    /\ Len(trace) = 1

\* C9: between calls no handle is open: every handle that was opened has
\* been closed once, by the call that opened it and as its last system
\* call, whether the scan ended, the write succeeded or the write failed;
\* and a failed open or create adds no handle.
C9_HandlesClosedOnce ==
    /\ \A fd \in DOMAIN handles : ~handles[fd].open /\ handles[fd].closes = 1
    /\ FileOp =>
           IF trace[1].err = NoError
           THEN /\ Len(handles) = Len(before.handles) + 1
                /\ trace[1].fd = Len(handles)
                /\ CallsOf({"close"}) = {Len(trace)}
                /\ trace[Len(trace)].fd = trace[1].fd
           ELSE /\ handles = before.handles
                /\ CallsOf({"close"}) = {}

\* A write that failed midway, after an earlier call, with its handle closed.
C9_Witness ==
    /\ pc = "serializeAsDesktopEntry"
    /\ ret.err = "EIO"
    /\ ret.n > 0
    /\ Len(handles) >= 2
    /\ handles[Len(handles)] = [path |-> DestPath, open |-> FALSE, closes |-> 1]

=============================================================================
